---- MODULE Spec2Model ----
(***************************************************************************)
(* merge-pna: the pixel-format normalisation and merge engine of           *)
(* src/src/pna.rs.  Every function of pna.rs is an operator computed the   *)
(* way the Rust code computes it (u8/u16 arithmetic, iterators as the      *)
(* sequence of items not yet consumed, Vec indices 0-based in the source   *)
(* and 1-based here).  A specification draws the arguments of one call in  *)
(* its initial states and its action performs the call.                    *)
(*                                                                         *)
(* SpecMain is one run of the program (main.rs, config.rs, process.rs):    *)
(* pc is main's position, args the command line and the files as the run   *)
(* finds them, ret what the last stage returned.                           *)
(***************************************************************************)
EXTENDS Integers, Sequences, FiniteSets, TLC

VARIABLES
    pc, fn, args, ret,
    stdin,          \* the lines of standard input not yet read
    stdout,         \* the messages written to standard output, oldest first
    output_file,    \* the file at output_path: "absent", "old", "truncated", "written"
    exit_code,      \* Running, or Exited(code)
    trace           \* the calls and returns of the run so far, oldest first

vars == <<pc, fn, args, ret, stdin, stdout, output_file, exit_code, trace>>

(***************************************************************************)
(* Bounds of the model.                                                    *)
(***************************************************************************)
\* longest raw pixel buffer, of every content over BufBytes, handed to
\* buf_to_rgba / buf_to_alpha_mask / read_bytes_*
MaxBufLen == 2
\* longest raw pixel buffer of the longer ones, which are prefixes of LongBufBases
MaxLongBufLen == 8
\* largest pixel_size handed to buf_to_rgba / buf_to_alpha_mask
MaxPixelSize == 4
\* longest raw palette (bytes) attached to an Info
MaxPaletteLen == 6
\* longest raw palette (bytes) handed to split_palette
MaxRawPaletteLen == 6
\* longest raw pixel buffer handed to merge_pna
MaxMergeBufLen == 2
\* most lines standard input holds before its end
MaxLines == 2
\* most prompts confirm_overwriting is followed through
MaxPrompts == 3

(***************************************************************************)
(* Machine integers.                                                       *)
(***************************************************************************)
U8Max == 255

Pow2(n) == 2 ^ n

Min(a, b) == IF a < b THEN a ELSE b

RECURSIVE BitAnd(_, _)
BitAnd(a, b) ==
    IF a = 0 \/ b = 0 THEN 0
    ELSE (a % 2) * (b % 2) + 2 * BitAnd(a \div 2, b \div 2)

BitOr(a, b) == a + b - BitAnd(a, b)

\* x << k on a u8 (k < 8): the bits shifted out are lost
Shl8(x, k) == (x * Pow2(k)) % 256

\* x >> k
Shr(x, k) == x \div Pow2(k)

\* x << k on a u16 (k < 16)
Shl16(x, k) == (x * Pow2(k)) % 65536

\* a * b on u32, by 16-bit halves (no intermediate value reaches 2^31 for the
\* dimensions drawn below): whether the product needs more than 32 bits, and
\* the product modulo 2^32
MulU32(a, b) ==
    LET ah == a \div 65536
        al == a % 65536
        bh == b \div 65536
        bl == b % 65536
        low == al * bl
        mid == ah * bl + al * bh + (low \div 65536)
    IN  [overflow |-> ah * bh > 0 \/ mid >= 65536,
         wrapped |-> (mid % 65536) * 65536 + (low % 65536)]

(***************************************************************************)
(* Result<T, MergeError>, Option, png::Info.                               *)
(***************************************************************************)
Ok(v) == [ok |-> TRUE, val |-> v, err |-> "None"]

Err(e) == [ok |-> FALSE, val |-> <<>>, err |-> e]

\* the thread panicked: nothing is returned
Panicked == [ok |-> FALSE, val |-> <<>>, err |-> "panic"]

NoRet == [ok |-> FALSE, val |-> <<>>, err |-> "not called"]

MergeErrors ==
    {"SizePngAndPnaAreDifferent", "LessDataSize", "PaletteNotFoundWhenIndexedPng",
     "InvalidPalette", "InvalidIndexForPalette"}

ColorTypes == {"Grayscale", "Rgb", "Indexed", "GrayscaleAlpha", "Rgba"}

BitDepths == {"One", "Two", "Four", "Eight", "Sixteen"}

\* the number of bits of a BitDepth
Bits(bit_depth) ==
    CASE bit_depth = "One" -> 1
      [] bit_depth = "Two" -> 2
      [] bit_depth = "Four" -> 4
      [] bit_depth = "Eight" -> 8
      [] bit_depth = "Sixteen" -> 16

\* the process: still running, or ended with an exit code
Running == [exited |-> FALSE, code |-> 0]

Exited(code) == [exited |-> TRUE, code |-> code]

\* Info.palette: Option<Cow<[u8]>>
PaletteNone == [some |-> FALSE, raw |-> <<>>]

PaletteSome(v) == [some |-> TRUE, raw |-> v]

(***************************************************************************)
(* split_palette                                                           *)
(***************************************************************************)
\* split_palette with chunks_exact(3): a trailing partial chunk is dropped
RECURSIVE SplitPaletteLoop_DropsPartialChunk(_, _)
SplitPaletteLoop_DropsPartialChunk(rest, result) ==
    IF Len(rest) < 3 THEN Ok(result)
    ELSE SplitPaletteLoop_DropsPartialChunk(SubSeq(rest, 4, Len(rest)),
                                            Append(result, <<rest[1], rest[2], rest[3]>>))

RECURSIVE SplitPaletteLoop(_, _)
SplitPaletteLoop(rest, result) ==
    IF rest = <<>> THEN Ok(result)
    ELSE LET p == SubSeq(rest, 1, Min(3, Len(rest)))      \* the next chunk of chunks(3)
         IN  IF Len(p) # 3 THEN Err("InvalidPalette")
             ELSE SplitPaletteLoop(SubSeq(rest, 4, Len(rest)),
                                   Append(result, <<p[1], p[2], p[3]>>))

split_palette(palette_raw) == SplitPaletteLoop(palette_raw, <<>>)

(***************************************************************************)
(* read_byte_for_bit_depth_8 / read_bytes_for_bit_depth_8 (scaled mode)    *)
(***************************************************************************)
\* (*t1 << k) | 0b01111111 == u8::MAX
TopBitAfterShl(t1, k) == BitOr(Shl8(t1, k), 127) = U8Max

\* Result<Option<usize>, MergeError> with the two &mut arguments as they are left
ByteRead(res_ok, res_some, size, e, output, buf_iter) ==
    [ok |-> res_ok, some |-> res_some, size |-> size, err |-> e,
     output |-> output, buf_iter |-> buf_iter]

\* output with its first Len(head) items overwritten by head
Overwrite(output, head) ==
    [i \in 1..Len(output) |-> IF i <= Len(head) THEN head[i] ELSE output[i]]

\* depth 2 with the low bit worth 0b01000000: plain zero padding
ScaledTwo_ZeroFill(t1, i) ==
    (IF TopBitAfterShl(t1, i * 2) THEN 128 ELSE 0)
    + (IF TopBitAfterShl(t1, i * 2 + 1) THEN 64 ELSE 0)

ScaledTwo(t1, i) ==
    (IF TopBitAfterShl(t1, i * 2) THEN 128 ELSE 0)
    + (IF TopBitAfterShl(t1, i * 2 + 1) THEN 127 ELSE 0)

ScaledFour(t1, i) ==
    (IF TopBitAfterShl(t1, i * 4) THEN 128 ELSE 0)
    + (IF TopBitAfterShl(t1, i * 4 + 1) THEN 64 ELSE 0)
    + (IF TopBitAfterShl(t1, i * 4 + 2) THEN 32 ELSE 0)
    + (IF TopBitAfterShl(t1, i * 4 + 3) THEN 31 ELSE 0)

read_byte_for_bit_depth_8(buf_iter, output, bit_depth) ==
    IF buf_iter = <<>> THEN ByteRead(TRUE, FALSE, 0, "None", output, buf_iter)
    ELSE
      LET t1 == Head(buf_iter)
          rest == Tail(buf_iter)
      IN CASE bit_depth = "One" ->
                ByteRead(TRUE, TRUE, 8, "None",
                         Overwrite(output, [i \in 1..8 |->
                             IF TopBitAfterShl(t1, i - 1) THEN U8Max ELSE 0]),
                         rest)
           [] bit_depth = "Two" ->
                ByteRead(TRUE, TRUE, 4, "None",
                         Overwrite(output, [i \in 1..4 |-> ScaledTwo(t1, i - 1)]),
                         rest)
           [] bit_depth = "Four" ->
                ByteRead(TRUE, TRUE, 2, "None",
                         Overwrite(output, [i \in 1..2 |-> ScaledFour(t1, i - 1)]),
                         rest)
           [] bit_depth = "Eight" ->
                ByteRead(TRUE, TRUE, 1, "None", Overwrite(output, <<t1>>), rest)
           [] bit_depth = "Sixteen" ->
                IF rest # <<>>
                THEN LET t2 == Head(rest)
                         v == BitOr(Shl16(t1, 8), t2)
                     IN  ByteRead(TRUE, TRUE, 1, "None",
                                  Overwrite(output, <<Shr(v, 8) % 256>>), Tail(rest))
                ELSE ByteRead(FALSE, FALSE, 0, "LessDataSize", output, rest)

Tmp0 == <<0, 0, 0, 0, 0, 0, 0, 0>>

\* the loop ending at the first failed read as it ends at the end of the buffer
RECURSIVE ReadBytes8Loop_EndsAtError(_, _, _, _)
ReadBytes8Loop_EndsAtError(buf_iter, tmp, result, bit_depth) ==
    LET r == read_byte_for_bit_depth_8(buf_iter, tmp, bit_depth)
    IN  IF ~r.ok \/ ~r.some THEN Ok(result)
        ELSE ReadBytes8Loop_EndsAtError(r.buf_iter, r.output,
                                        result \o SubSeq(r.output, 1, r.size), bit_depth)

RECURSIVE ReadBytes8Loop(_, _, _, _)
ReadBytes8Loop(buf_iter, tmp, result, bit_depth) ==
    LET r == read_byte_for_bit_depth_8(buf_iter, tmp, bit_depth)
    IN  IF ~r.ok THEN Err(r.err)
        ELSE IF ~r.some THEN Ok(result)
        ELSE ReadBytes8Loop(r.buf_iter, r.output,
                            result \o SubSeq(r.output, 1, r.size), bit_depth)

read_bytes_for_bit_depth_8(buf, bit_depth) == ReadBytes8Loop(buf, Tmp0, <<>>, bit_depth)

(***************************************************************************)
(* read_byte_for_usize / read_bytes_for_usize (index mode)                 *)
(***************************************************************************)
\* the bits of the byte taken least significant first
IndexOne_LsbFirst(t1, i) == Shr(t1, i) % 2

\* bit i of the byte, most significant first
IndexOne(t1, i) == IF TopBitAfterShl(t1, i) THEN 1 ELSE 0

\* the 2-bit groups of the byte taken least significant first
IndexTwo_LsbFirst(t1, i) == BitAnd(Shr(t1, i * 2), 3)

\* VVxxxxxx -> 000000VV
IndexTwo(t1, i) == BitAnd(Shr(Shl8(t1, i * 2), 6), 3)

\* VVVVxxxx -> 0000VVVV
IndexFour(t1, i) == BitAnd(Shr(Shl8(t1, i * 4), 4), 15)

read_byte_for_usize(buf_iter, output, bit_depth) ==
    IF buf_iter = <<>> THEN ByteRead(TRUE, FALSE, 0, "None", output, buf_iter)
    ELSE
      LET t1 == Head(buf_iter)
          rest == Tail(buf_iter)
      IN CASE bit_depth = "One" ->
                ByteRead(TRUE, TRUE, 8, "None",
                         Overwrite(output, [i \in 1..8 |-> IndexOne(t1, i - 1)]),
                         rest)
           [] bit_depth = "Two" ->
                ByteRead(TRUE, TRUE, 4, "None",
                         Overwrite(output, [i \in 1..4 |-> IndexTwo(t1, i - 1)]),
                         rest)
           [] bit_depth = "Four" ->
                ByteRead(TRUE, TRUE, 2, "None",
                         Overwrite(output, [i \in 1..2 |-> IndexFour(t1, i - 1)]),
                         rest)
           [] bit_depth = "Eight" ->
                ByteRead(TRUE, TRUE, 1, "None", Overwrite(output, <<t1>>), rest)
           [] bit_depth = "Sixteen" ->
                IF rest # <<>>
                THEN LET t2 == Head(rest)
                         v == BitAnd(Shl16(t1, 8), 65280) + t2
                     IN  ByteRead(TRUE, TRUE, 1, "None",
                                  Overwrite(output, <<v>>), Tail(rest))
                ELSE ByteRead(FALSE, FALSE, 0, "LessDataSize", output, rest)

RECURSIVE ReadUsizeLoop(_, _, _, _)
ReadUsizeLoop(buf_iter, tmp, result, bit_depth) ==
    LET r == read_byte_for_usize(buf_iter, tmp, bit_depth)
    IN  IF ~r.ok THEN Err(r.err)
        ELSE IF ~r.some THEN Ok(result)
        ELSE ReadUsizeLoop(r.buf_iter, r.output,
                           result \o SubSeq(r.output, 1, r.size), bit_depth)

read_bytes_for_usize(buf, bit_depth) == ReadUsizeLoop(buf, Tmp0, <<>>, bit_depth)

(***************************************************************************)
(* buf_to_rgba                                                             *)
(***************************************************************************)
\* for _i in 0..pixel_size over bytes_iter, Grayscale arm; n counts the rounds left
RECURSIVE RgbaGrayscaleLoop(_, _, _)
RgbaGrayscaleLoop(bytes_iter, n, result) ==
    IF n = 0 THEN Ok(result)
    ELSE IF Len(bytes_iter) >= 1
         THEN LET g == bytes_iter[1]
              IN  RgbaGrayscaleLoop(Tail(bytes_iter), n - 1, result \o <<g, g, g, U8Max>>)
         ELSE Err("LessDataSize")

\* the Rgb arm leaving its loop, instead of failing, when the samples run out
RECURSIVE RgbaRgbLoop_StopsEarly(_, _, _)
RgbaRgbLoop_StopsEarly(bytes_iter, n, result) ==
    IF n = 0 \/ Len(bytes_iter) < 3 THEN Ok(result)
    ELSE RgbaRgbLoop_StopsEarly(SubSeq(bytes_iter, 4, Len(bytes_iter)), n - 1,
                                result \o <<bytes_iter[1], bytes_iter[2], bytes_iter[3], U8Max>>)

RECURSIVE RgbaRgbLoop(_, _, _)
RgbaRgbLoop(bytes_iter, n, result) ==
    IF n = 0 THEN Ok(result)
    ELSE IF Len(bytes_iter) >= 3
         THEN LET r == bytes_iter[1]
                  g == bytes_iter[2]
                  b == bytes_iter[3]
              IN  RgbaRgbLoop(SubSeq(bytes_iter, 4, Len(bytes_iter)), n - 1,
                              result \o <<r, g, b, U8Max>>)
         ELSE Err("LessDataSize")

\* the Indexed arm clamping an index beyond the palette to its last entry
RECURSIVE RgbaIndexedLoop_Clamps(_, _, _, _)
RgbaIndexedLoop_Clamps(indices_iter, palette, n, result) ==
    IF n = 0 THEN Ok(result)
    ELSE IF Len(indices_iter) >= 1
         THEN IF palette # <<>>
              THEN LET p == palette[Min(indices_iter[1], Len(palette) - 1) + 1]
                   IN  RgbaIndexedLoop_Clamps(Tail(indices_iter), palette, n - 1,
                                              result \o <<p[1], p[2], p[3], U8Max>>)
              ELSE Err("InvalidIndexForPalette")
         ELSE Err("LessDataSize")

RECURSIVE RgbaIndexedLoop(_, _, _, _)
RgbaIndexedLoop(indices_iter, palette, n, result) ==
    IF n = 0 THEN Ok(result)
    ELSE IF Len(indices_iter) >= 1
         THEN LET i == indices_iter[1]
              IN  IF i < Len(palette)                       \* palette.get(*i)
                  THEN LET p == palette[i + 1]
                       IN  RgbaIndexedLoop(Tail(indices_iter), palette, n - 1,
                                           result \o <<p[1], p[2], p[3], U8Max>>)
                  ELSE Err("InvalidIndexForPalette")
         ELSE Err("LessDataSize")

\* the GrayscaleAlpha arm writing an opaque alpha, as the Grayscale arm does
RECURSIVE RgbaGrayscaleAlphaLoop_Opaque(_, _, _)
RgbaGrayscaleAlphaLoop_Opaque(bytes_iter, n, result) ==
    IF n = 0 THEN Ok(result)
    ELSE IF Len(bytes_iter) >= 2
         THEN LET g == bytes_iter[1]
              IN  RgbaGrayscaleAlphaLoop_Opaque(SubSeq(bytes_iter, 3, Len(bytes_iter)), n - 1,
                                                result \o <<g, g, g, U8Max>>)
         ELSE Err("LessDataSize")

RECURSIVE RgbaGrayscaleAlphaLoop(_, _, _)
RgbaGrayscaleAlphaLoop(bytes_iter, n, result) ==
    IF n = 0 THEN Ok(result)
    ELSE IF Len(bytes_iter) >= 2
         THEN LET g == bytes_iter[1]
                  a == bytes_iter[2]
              IN  RgbaGrayscaleAlphaLoop(SubSeq(bytes_iter, 3, Len(bytes_iter)), n - 1,
                                         result \o <<g, g, g, a>>)
         ELSE Err("LessDataSize")

\* a missing palette taken for an empty one
ResolvePalette_DefaultEmpty(info) ==
    IF info.palette.some THEN split_palette(info.palette.raw) ELSE Ok(<<>>)

\* match &info.palette { Some(v) => split_palette(v)?, None => return Err(..) }
ResolvePalette(info) ==
    IF info.palette.some THEN split_palette(info.palette.raw)
    ELSE Err("PaletteNotFoundWhenIndexedPng")

buf_to_rgba(buf, pixel_size, info) ==
    CASE info.color_type = "Grayscale" ->
           LET bytes == read_bytes_for_bit_depth_8(buf, info.bit_depth)
           IN  IF ~bytes.ok THEN bytes
               ELSE RgbaGrayscaleLoop(bytes.val, pixel_size, <<>>)
      [] info.color_type = "Rgb" ->
           LET bytes == read_bytes_for_bit_depth_8(buf, info.bit_depth)
           IN  IF ~bytes.ok THEN bytes
               ELSE RgbaRgbLoop(bytes.val, pixel_size, <<>>)
      [] info.color_type = "Indexed" ->
           LET indices == read_bytes_for_usize(buf, info.bit_depth)
           IN  IF ~indices.ok THEN indices
               ELSE LET palette == ResolvePalette(info)
                    IN  IF ~palette.ok THEN palette
                        ELSE RgbaIndexedLoop(indices.val, palette.val, pixel_size, <<>>)
      [] info.color_type = "GrayscaleAlpha" ->
           LET bytes == read_bytes_for_bit_depth_8(buf, info.bit_depth)
           IN  IF ~bytes.ok THEN bytes
               ELSE RgbaGrayscaleAlphaLoop(bytes.val, pixel_size, <<>>)
      [] info.color_type = "Rgba" ->
           LET bytes == read_bytes_for_bit_depth_8(buf, info.bit_depth)
           IN  IF ~bytes.ok THEN bytes
               ELSE IF Len(bytes.val) < pixel_size * 4 THEN Err("LessDataSize")
               ELSE Ok(SubSeq(bytes.val, 1, pixel_size * 4))     \* bytes.resize

(***************************************************************************)
(* buf_to_alpha_mask                                                       *)
(***************************************************************************)
\* the average with the sum formed in u8 arithmetic, wrapping at 256
Average_SumInU8(r, g, b) == ((r + g + b) % 256) \div 3

\* (*r as u16 + *g as u16 + *b as u16) / 3, then `as u8`
Average(r, g, b) == (((r + g + b) % 65536) \div 3) % 256

RECURSIVE MaskRgbLoop(_, _, _)
MaskRgbLoop(bytes_iter, n, result) ==
    IF n = 0 THEN Ok(result)
    ELSE IF Len(bytes_iter) >= 3
         THEN MaskRgbLoop(SubSeq(bytes_iter, 4, Len(bytes_iter)), n - 1,
                          Append(result, Average(bytes_iter[1], bytes_iter[2], bytes_iter[3])))
         ELSE Err("LessDataSize")

RECURSIVE MaskIndexedLoop(_, _, _, _)
MaskIndexedLoop(indices_iter, palette, n, result) ==
    IF n = 0 THEN Ok(result)
    ELSE IF Len(indices_iter) >= 1
         THEN LET i == indices_iter[1]
              IN  IF i < Len(palette)
                  THEN LET p == palette[i + 1]
                       IN  MaskIndexedLoop(Tail(indices_iter), palette, n - 1,
                                           Append(result, Average(p[1], p[2], p[3])))
                  ELSE Err("InvalidIndexForPalette")
         ELSE Err("LessDataSize")

\* the GrayscaleAlpha arm reading the gray sample alone: a last pixel may lack
\* its alpha sample
RECURSIVE MaskGrayscaleAlphaLoop_GrayOnly(_, _, _)
MaskGrayscaleAlphaLoop_GrayOnly(bytes_iter, n, result) ==
    IF n = 0 THEN Ok(result)
    ELSE IF Len(bytes_iter) >= 1
         THEN MaskGrayscaleAlphaLoop_GrayOnly(SubSeq(bytes_iter, 3, Len(bytes_iter)), n - 1,
                                              Append(result, bytes_iter[1]))
         ELSE Err("LessDataSize")

RECURSIVE MaskGrayscaleAlphaLoop(_, _, _)
MaskGrayscaleAlphaLoop(bytes_iter, n, result) ==
    IF n = 0 THEN Ok(result)
    ELSE IF Len(bytes_iter) >= 2
         THEN MaskGrayscaleAlphaLoop(SubSeq(bytes_iter, 3, Len(bytes_iter)), n - 1,
                                     Append(result, bytes_iter[1]))
         ELSE Err("LessDataSize")

\* the Rgba arm taking the pixel's own alpha sample as the mask byte
RECURSIVE MaskRgbaLoop_TakesAlpha(_, _, _)
MaskRgbaLoop_TakesAlpha(bytes_iter, n, result) ==
    IF n = 0 THEN Ok(result)
    ELSE IF Len(bytes_iter) >= 4
         THEN MaskRgbaLoop_TakesAlpha(SubSeq(bytes_iter, 5, Len(bytes_iter)), n - 1,
                                      Append(result, bytes_iter[4]))
         ELSE Err("LessDataSize")

RECURSIVE MaskRgbaLoop(_, _, _)
MaskRgbaLoop(bytes_iter, n, result) ==
    IF n = 0 THEN Ok(result)
    ELSE IF Len(bytes_iter) >= 4
         THEN MaskRgbaLoop(SubSeq(bytes_iter, 5, Len(bytes_iter)), n - 1,
                           Append(result, Average(bytes_iter[1], bytes_iter[2], bytes_iter[3])))
         ELSE Err("LessDataSize")

buf_to_alpha_mask(buf, pixel_size, info) ==
    CASE info.color_type = "Grayscale" ->
           LET bytes == read_bytes_for_bit_depth_8(buf, info.bit_depth)
           IN  IF ~bytes.ok THEN bytes
               ELSE IF Len(bytes.val) < pixel_size THEN Err("LessDataSize")
               ELSE Ok(SubSeq(bytes.val, 1, pixel_size))
      [] info.color_type = "Rgb" ->
           LET bytes == read_bytes_for_bit_depth_8(buf, info.bit_depth)
           IN  IF ~bytes.ok THEN bytes
               ELSE MaskRgbLoop(bytes.val, pixel_size, <<>>)
      [] info.color_type = "Indexed" ->
           LET indices == read_bytes_for_usize(buf, info.bit_depth)
           IN  IF ~indices.ok THEN indices
               ELSE LET palette == ResolvePalette(info)
                    IN  IF ~palette.ok THEN palette
                        ELSE MaskIndexedLoop(indices.val, palette.val, pixel_size, <<>>)
      [] info.color_type = "GrayscaleAlpha" ->
           LET bytes == read_bytes_for_bit_depth_8(buf, info.bit_depth)
           IN  IF ~bytes.ok THEN bytes
               ELSE MaskGrayscaleAlphaLoop(bytes.val, pixel_size, <<>>)
      [] info.color_type = "Rgba" ->
           LET bytes == read_bytes_for_bit_depth_8(buf, info.bit_depth)
           IN  IF ~bytes.ok THEN bytes
               ELSE MaskRgbaLoop(bytes.val, pixel_size, <<>>)

(***************************************************************************)
(* merge_pna                                                               *)
(***************************************************************************)
\* for i in 0..pixel_size { png_rgba[i * 4 + 3] = pna_alpha_mask[i] }
RECURSIVE MergeLoop(_, _, _, _)
MergeLoop(png_rgba, pna_alpha_mask, i, pixel_size) ==
    IF i >= pixel_size THEN Ok(png_rgba)
    ELSE IF i * 4 + 3 < Len(png_rgba) /\ i < Len(pna_alpha_mask)
         THEN MergeLoop([png_rgba EXCEPT ![i * 4 + 4] = pna_alpha_mask[i + 1]],
                        pna_alpha_mask, i + 1, pixel_size)
         ELSE Err("LessDataSize")

\* merge_pna with the dimension check moved behind the two normalisations
merge_pna_CheckLast(png_buf, png_info, pna_buf, pna_info, overflow_checks) ==
    IF overflow_checks /\ MulU32(png_info.width, png_info.height).overflow
    THEN Panicked
    ELSE LET pixel_size == MulU32(png_info.width, png_info.height).wrapped
             png_rgba == buf_to_rgba(png_buf, pixel_size, png_info)
         IN  IF ~png_rgba.ok THEN png_rgba
             ELSE LET pna_alpha_mask == buf_to_alpha_mask(pna_buf, pixel_size, pna_info)
                  IN  IF ~pna_alpha_mask.ok THEN pna_alpha_mask
                      ELSE IF png_info.width # pna_info.width
                              \/ png_info.height # pna_info.height
                      THEN Err("SizePngAndPnaAreDifferent")
                      ELSE MergeLoop(png_rgba.val, pna_alpha_mask.val, 0, pixel_size)

\* overflow_checks: the build profile's overflow-checks setting (on in a debug
\* build, off in a release build), which decides what the u32 product does
merge_pna(png_buf, png_info, pna_buf, pna_info, overflow_checks) ==
    IF png_info.width # pna_info.width \/ png_info.height # pna_info.height
    THEN Err("SizePngAndPnaAreDifferent")
    ELSE IF overflow_checks /\ MulU32(png_info.width, png_info.height).overflow
    THEN Panicked                    \* attempt to multiply with overflow
    ELSE LET pixel_size == MulU32(png_info.width, png_info.height).wrapped
             png_rgba == buf_to_rgba(png_buf, pixel_size, png_info)
         IN  IF ~png_rgba.ok THEN png_rgba
             ELSE LET pna_alpha_mask == buf_to_alpha_mask(pna_buf, pixel_size, pna_info)
                  IN  IF ~pna_alpha_mask.ok THEN pna_alpha_mask
                      ELSE MergeLoop(png_rgba.val, pna_alpha_mask.val, 0, pixel_size)

(***************************************************************************)
(* The arguments the specifications draw.                                  *)
(***************************************************************************)
Seqs(S, n) == UNION {[1..k -> S] : k \in 0..n}

Prefixes(bases, n) == {SubSeq(b, 1, k) : b \in bases, k \in 0..n}

Info(width, height, color_type, bit_depth, palette) ==
    [width |-> width, height |-> height, color_type |-> color_type,
     bit_depth |-> bit_depth, palette |-> palette]

\* 54 = 0b00110110, 192 = 0b11000000 (the bytes of the unit tests)
BufBytes == {0, 1, 54, 192}

\* buffers long enough for whole pixels at depths 8 and 16
LongBufBases ==
    {<<0, 1, 0, 0, 54, 192, 1, 0, 192>>, <<54, 192, 1, 0, 0, 1, 0, 0, 54>>,
     <<255, 255, 255, 1, 1, 1, 0, 0, 0>>}

Bufs == Seqs(BufBytes, MaxBufLen) \cup Prefixes(LongBufBases, MaxLongBufLen)

PaletteBases == {<<255, 0, 0, 0, 0, 255, 0, 255, 0>>, <<1, 2, 3, 4, 5, 6, 7, 8, 9>>}

\* a palette chunk may accompany any image; only an Indexed one reads it
PalettesFor(color_type) ==
    IF color_type = "Indexed"
    THEN {PaletteNone} \cup {PaletteSome(v) : v \in Prefixes(PaletteBases, MaxPaletteLen)}
    ELSE {PaletteNone, PaletteSome(<<1, 2>>)}

Formats ==
    UNION {{<<c, d, p>> : d \in BitDepths, p \in PalettesFor(c)} : c \in ColorTypes}

NormalizeArgs ==
    {[buf |-> b, pixel_size |-> n, info |-> Info(n, 1, f[1], f[2], f[3])] :
        b \in Bufs, n \in 0..MaxPixelSize, f \in Formats}

MergeBufBases == {<<54, 192, 1>>, <<192, 54, 0>>}

MergeBufs == Prefixes(MergeBufBases, MaxMergeBufLen)

MergePalettesFor(color_type) ==
    IF color_type = "Indexed"
    THEN {PaletteNone, PaletteSome(<<255, 0>>), PaletteSome(<<255, 0, 0, 0, 0, 255>>)}
    ELSE {PaletteNone}

\* <<width, height>>; 65536 * 65536 = 2^32 does not fit a u32
Dimensions == {<<1, 1>>, <<2, 1>>, <<1, 2>>, <<65536, 65536>>}

MergeFormats ==
    UNION {{<<c, d, p>> : d \in BitDepths, p \in MergePalettesFor(c)} : c \in ColorTypes}

MergeInfos ==
    {Info(wh[1], wh[2], f[1], f[2], f[3]) : wh \in Dimensions, f \in MergeFormats}

\* the mask image's buffers: 0 and 1 are one byte apart in their last bit only
MaskBufs == MergeBufs \cup {<<0>>, <<1>>}

MergeArgs ==
    [png_buf : MergeBufs, png_info : MergeInfos, pna_buf : MaskBufs, pna_info : MergeInfos]

ByteIters ==
    {<<>>} \cup {<<b>> : b \in 0..U8Max} \cup {<<b, c>> : b \in 0..U8Max, c \in BufBytes}

\* the scratch array as read_bytes_* first passes it, and as an earlier round left it
Outputs == {Tmp0, <<9, 9, 9, 9, 9, 9, 9, 9>>}

ReadByteArgs == [buf_iter : ByteIters, output : Outputs, bit_depth : BitDepths]

ReadBytesArgs == [buf : Bufs \cup {<<b>> : b \in 0..U8Max}, bit_depth : BitDepths]

PaletteBytes == {0, 7, 255}

SplitPaletteArgs == [palette_raw : Seqs(PaletteBytes, MaxRawPaletteLen)]

(***************************************************************************)
(* The calls.  pc = "call": the arguments are drawn and fn is about to     *)
(* run; pc = "return": ret is what fn returned.                            *)
(***************************************************************************)
Call(f, argset) ==
    /\ pc = "call"
    /\ fn = f
    /\ args \in argset
    /\ ret = NoRet
    /\ stdin = <<>>
    /\ stdout = <<>>
    /\ output_file = "absent"
    /\ exit_code = Running
    /\ trace = <<>>

Return(result) ==
    /\ pc = "call"
    /\ pc' = "return"
    /\ ret' = result
    /\ UNCHANGED <<fn, args, stdin, stdout, output_file, exit_code, trace>>

MergePna ==
    /\ fn = "merge_pna"
    /\ \E overflow_checks \in BOOLEAN :
          Return(merge_pna(args.png_buf, args.png_info, args.pna_buf, args.pna_info,
                           overflow_checks))

BufToRgba ==
    /\ fn = "buf_to_rgba"
    /\ Return(buf_to_rgba(args.buf, args.pixel_size, args.info))

BufToAlphaMask ==
    /\ fn = "buf_to_alpha_mask"
    /\ Return(buf_to_alpha_mask(args.buf, args.pixel_size, args.info))

ReadByteForBitDepth8 ==
    /\ fn = "read_byte_for_bit_depth_8"
    /\ Return(read_byte_for_bit_depth_8(args.buf_iter, args.output, args.bit_depth))

ReadByteForUsize ==
    /\ fn = "read_byte_for_usize"
    /\ Return(read_byte_for_usize(args.buf_iter, args.output, args.bit_depth))

ReadBytesForBitDepth8 ==
    /\ fn = "read_bytes_for_bit_depth_8"
    /\ Return(read_bytes_for_bit_depth_8(args.buf, args.bit_depth))

ReadBytesForUsize ==
    /\ fn = "read_bytes_for_usize"
    /\ Return(read_bytes_for_usize(args.buf, args.bit_depth))

SplitPalette ==
    /\ fn = "split_palette"
    /\ Return(split_palette(args.palette_raw))

\* merge_pna on two decoded images
Init == Call("merge_pna", MergeArgs)

Next == MergePna

Spec == Init /\ [][Next]_vars

\* the two normalisers on one decoded image
InitNormalize ==
    \/ Call("buf_to_rgba", NormalizeArgs)
    \/ Call("buf_to_alpha_mask", NormalizeArgs)

NextNormalize == BufToRgba \/ BufToAlphaMask

SpecNormalize == InitNormalize /\ [][NextNormalize]_vars

\* the bit unpackers
InitUnpack ==
    \/ Call("read_byte_for_bit_depth_8", ReadByteArgs)
    \/ Call("read_byte_for_usize", ReadByteArgs)
    \/ Call("read_bytes_for_bit_depth_8", ReadBytesArgs)
    \/ Call("read_bytes_for_usize", ReadBytesArgs)

NextUnpack ==
    ReadByteForBitDepth8 \/ ReadByteForUsize \/ ReadBytesForBitDepth8 \/ ReadBytesForUsize

SpecUnpack == InitUnpack /\ [][NextUnpack]_vars

\* the palette splitter
InitPalette == Call("split_palette", SplitPaletteArgs)

NextPalette == SplitPalette

SpecPalette == InitPalette /\ [][NextPalette]_vars

(***************************************************************************)
(* The program: main, ConfigRaw::to_config_with_force_flag,                *)
(* Config::confirm_overwriting, process.                                   *)
(***************************************************************************)
\* what str::trim removes
Whitespace == {" ", "\t", "\n", "\r"}

RECURSIVE trim_start(_)
trim_start(s) ==
    IF s # <<>> /\ Head(s) \in Whitespace THEN trim_start(Tail(s)) ELSE s

RECURSIVE trim_end(_)
trim_end(s) ==
    IF s # <<>> /\ s[Len(s)] \in Whitespace THEN trim_end(SubSeq(s, 1, Len(s) - 1)) ELSE s

\* a trim of the line's end only
trim_TrailingOnly(s) == trim_end(s)

\* s.trim(); a string is the sequence of its characters
trim(s) == trim_start(trim_end(s))

\* main exits with 0 whatever the stage returned
ExitCodeFor_AlwaysZero(result) == 0

\* main: if let Err(e) = stage { std::process::exit(1) }; the end of main is exit code 0
ExitCodeFor(result) == IF result.ok THEN 0 ELSE 1

\* the operator ? swallowing the error: process goes on
Propagate_Swallows(result, next) == next

\* the operator ? in process: an Err returns from process, an Ok goes on
Propagate(result, next) == IF result.ok THEN next ELSE "exit"

\* ConfigRaw::to_config_with_force_flag; the value is (Config, bool), of which
\* the run reads the flag
to_config_with_force_flag(config_raw) ==
    IF ~config_raw.png_is_file THEN Err("PngIsNotExist")
    ELSE IF ~config_raw.pna_is_file THEN Err("InvalidPnaPath")
    ELSE Ok(<<config_raw.force>>)

\* an entry of trace
Ev(op, result) == [op |-> op, result |-> result]

Outcome(result) ==
    IF result.ok THEN "Ok" ELSE IF result = Panicked THEN "panic" ELSE "Err"

ExistsMsg == "The output file already exists."

PromptMsg == "Do you want to overwrite the file? [Y/n]: "

OverwriteMsg == "The file will be overwritten."

ClosingMsg == "Closing this program..."

HintMsg == "Please input 'Y' or 'n'. (for closing this program, input 'n')"

Prompts(out) == Len(SelectSeq(out, LAMBDA m : m = PromptMsg))

\* the lines a user may type, each with its line end
Lines ==
    {<<"Y", "\n">>, <<"n", "\n">>, <<" ", "Y", "\n">>, <<"n", " ", "\r", "\n">>,
     <<"y", "\n">>, <<"Y", "n", "\n">>, <<"\n">>}

\* the command line and the files as the run finds them
MainArgs ==
    [force : BOOLEAN, png_is_file : BOOLEAN, pna_is_file : BOOLEAN,
     output_exists : BOOLEAN, stdin : Seqs(Lines, MaxLines)]

\* what opening and decoding an input file gives
DecodeResults == {Ok(<<>>), Err("Io"), Err("DecodingError")}

\* what File::create gives
CreateResults == {Ok(<<>>), Err("Io")}

\* what writing the header and the image data gives
EncodeResults == {Ok(<<>>), Err("Io"), Err("EncodingError")}

\* the two decoded images handed to merge_pna
DecodedImages ==
    [png_buf : {<<54>>},
     png_info : {Info(1, 1, "Grayscale", "Eight", PaletteNone),
                 Info(2, 1, "Grayscale", "Eight", PaletteNone),
                 Info(65536, 65536, "Grayscale", "Eight", PaletteNone)},
     pna_buf : {<<192>>},
     pna_info : {Info(1, 1, "Grayscale", "Eight", PaletteNone),
                 Info(2, 1, "Grayscale", "Eight", PaletteNone),
                 Info(65536, 65536, "Grayscale", "Eight", PaletteNone)}]

MainAt(position) == fn = "main" /\ pc = position

\* std::process::exit(code), or main returning (code 0), or the panic of the
\* main thread (code 101)
Exit(code) ==
    /\ pc' = "exit"
    /\ exit_code' = Exited(code)

\* confirm_overwriting returns Err(ConfigError::Io): main exits
ConfirmFails ==
    /\ ret' = Err("Io")
    /\ trace' = Append(trace, Ev("confirm_overwriting", "Err"))
    /\ Exit(ExitCodeFor(Err("Io")))

\* a step of process that returned result: with an Err process returns it and
\* main exits, with an Ok process goes on to next, and past its last step
\* returns Ok(()) to main, which ends
ProcessStep(called, op, result, next) ==
    IF Propagate(result, next) = "exit"
    THEN /\ trace' = trace \o called \o <<Ev(op, Outcome(result)), Ev("process", Outcome(result))>>
         /\ ret' = result
         /\ Exit(ExitCodeFor(result))
    ELSE /\ trace' = trace \o called \o <<Ev(op, Outcome(result))>>
         /\ pc' = next
         /\ UNCHANGED <<ret, exit_code>>

\* main.rs 11-17
ToConfigWithForceFlag ==
    /\ MainAt("to_config")
    /\ LET result == to_config_with_force_flag(args)
       IN  /\ ret' = result
           /\ trace' = trace \o <<Ev("to_config_with_force_flag", "called"),
                                  Ev("to_config_with_force_flag", Outcome(result))>>
           /\ IF result.ok
              THEN /\ pc' = IF result.val[1] THEN "decode_png" ELSE "confirm"
                   /\ UNCHANGED exit_code
              ELSE Exit(ExitCodeFor(result))
    /\ UNCHANGED <<fn, args, stdin, stdout, output_file>>

\* confirm_overwriting up to its loop
ConfirmOverwriting ==
    /\ MainAt("confirm")
    /\ IF output_file = "absent"
       THEN /\ trace' = trace \o <<Ev("confirm_overwriting", "called"),
                                   Ev("confirm_overwriting", "Ok")>>
            /\ ret' = Ok(<<>>)
            /\ pc' = "decode_png"
            /\ UNCHANGED <<stdout, exit_code>>
       ELSE /\ trace' = Append(trace, Ev("confirm_overwriting", "called"))
            /\ stdout' = Append(stdout, ExistsMsg)
            /\ pc' = "prompt"
            /\ UNCHANGED <<ret, exit_code>>
    /\ UNCHANGED <<fn, args, stdin, output_file>>

\* the loop of confirm_overwriting: the prompt and its flush
Prompt ==
    /\ MainAt("prompt")
    /\ Prompts(stdout) < MaxPrompts
    /\ stdout' = Append(stdout, PromptMsg)
    /\ \E flushed \in BOOLEAN :
          IF flushed
          THEN /\ pc' = "read_line"
               /\ UNCHANGED <<ret, exit_code, trace>>
          ELSE ConfirmFails
    /\ UNCHANGED <<fn, args, stdin, output_file>>

\* the loop of confirm_overwriting: read_line and the match on s.trim(); at the
\* end of standard input read_line gives the empty string
ReadLine ==
    /\ MainAt("read_line")
    /\ \E read, flushed \in BOOLEAN :
          IF ~read
          THEN /\ ConfirmFails
               /\ UNCHANGED <<stdin, stdout>>
          ELSE LET s == IF stdin = <<>> THEN <<>> ELSE Head(stdin)
               IN  /\ stdin' = IF stdin = <<>> THEN <<>> ELSE Tail(stdin)
                   /\ CASE trim(s) = <<"Y">> ->
                             /\ stdout' = Append(stdout, OverwriteMsg)
                             /\ IF flushed
                                THEN /\ ret' = Ok(<<>>)
                                     /\ trace' = Append(trace, Ev("confirm_overwriting", "Ok"))
                                     /\ pc' = "decode_png"
                                     /\ UNCHANGED exit_code
                                ELSE ConfirmFails
                        [] trim(s) = <<"n">> ->
                             /\ stdout' = Append(stdout, ClosingMsg)
                             /\ IF flushed
                                THEN /\ trace' = Append(trace, Ev("confirm_overwriting", "exit"))
                                     /\ Exit(0)
                                     /\ UNCHANGED ret
                                ELSE ConfirmFails
                        [] OTHER ->
                             /\ stdout' = Append(stdout, HintMsg)
                             /\ pc' = "prompt"
                             /\ UNCHANGED <<ret, exit_code, trace>>
    /\ UNCHANGED <<fn, args, output_file>>

\* process.rs 8-13
DecodePng ==
    /\ MainAt("decode_png")
    /\ \E result \in DecodeResults :
          ProcessStep(<<Ev("process", "called")>>, "decode_png", result, "decode_pna")
    /\ UNCHANGED <<fn, args, stdin, stdout, output_file>>

\* process.rs 15-20
DecodePna ==
    /\ MainAt("decode_pna")
    /\ \E result \in DecodeResults : ProcessStep(<<>>, "decode_pna", result, "merge")
    /\ UNCHANGED <<fn, args, stdin, stdout, output_file>>

\* process.rs 22
MergeDecoded ==
    /\ MainAt("merge")
    /\ \E images \in DecodedImages, overflow_checks \in BOOLEAN :
          LET result == merge_pna(images.png_buf, images.png_info,
                                  images.pna_buf, images.pna_info, overflow_checks)
          IN  IF result = Panicked
              THEN /\ trace' = trace \o <<Ev("merge_pna", "panic"), Ev("process", "panic")>>
                   /\ ret' = Panicked
                   /\ Exit(101)
              ELSE ProcessStep(<<>>, "merge_pna", result, "create")
    /\ UNCHANGED <<fn, args, stdin, stdout, output_file>>

\* process.rs 24: File::create makes the file or truncates it
CreateOutput ==
    /\ MainAt("create")
    /\ \E result \in CreateResults :
          /\ ProcessStep(<<>>, "File::create", result, "encode")
          /\ output_file' = IF result.ok THEN "truncated" ELSE output_file
    /\ UNCHANGED <<fn, args, stdin, stdout>>

\* process.rs 25-32
EncodeOutput ==
    /\ MainAt("encode")
    /\ \E result \in EncodeResults :
          /\ ProcessStep(<<>>, "encode", result, "exit")
          /\ output_file' = IF result.ok THEN "written" ELSE output_file
    /\ UNCHANGED <<fn, args, stdin, stdout>>

\* one run of the program
InitMain ==
    /\ pc = "to_config"
    /\ fn = "main"
    /\ args \in MainArgs
    /\ ret = NoRet
    /\ stdin = args.stdin
    /\ stdout = <<>>
    /\ output_file = IF args.output_exists THEN "old" ELSE "absent"
    /\ exit_code = Running
    /\ trace = <<>>

NextMain ==
    \/ ToConfigWithForceFlag
    \/ ConfirmOverwriting
    \/ Prompt
    \/ ReadLine
    \/ DecodePng
    \/ DecodePna
    \/ MergeDecoded
    \/ CreateOutput
    \/ EncodeOutput

SpecMain == InitMain /\ [][NextMain]_vars

(***************************************************************************)
(* Properties of merge_pna (checked under Spec).                           *)
(***************************************************************************)
Returned(f) == pc = "return" /\ fn = f

DimensionsDiffer ==
    \/ args.png_info.width # args.pna_info.width
    \/ args.png_info.height # args.pna_info.height

\* what normalising image 1 alone, with its own pixel count, gives
PngAlone ==
    buf_to_rgba(args.png_buf, MulU32(args.png_info.width, args.png_info.height).wrapped,
                args.png_info)

PnaAlone ==
    buf_to_alpha_mask(args.pna_buf,
                      MulU32(args.pna_info.width, args.pna_info.height).wrapped,
                      args.pna_info)

\* C1: whenever the two images differ in width or in height, merge_pna fails
\* with SizePngAndPnaAreDifferent, whatever the buffers, color models, bit
\* depths and palettes are, also where normalising either image would fail
\* with another error.
C1_DimensionMismatchFails ==
    (Returned("merge_pna") /\ DimensionsDiffer)
        => ret = Err("SizePngAndPnaAreDifferent")

\* C1 witness: a call with different dimensions returned the mismatch error
\* although image 1 has no palette for its Indexed data and image 2 is short
\* of data.
C1_Witness ==
    /\ Returned("merge_pna")
    /\ DimensionsDiffer
    /\ PngAlone = Err("PaletteNotFoundWhenIndexedPng")
    /\ PnaAlone = Err("LessDataSize")
    /\ ret = Err("SizePngAndPnaAreDifferent")

\* pixel i lies in a grid of the given width and height (i < width * height,
\* without forming the product)
InGrid(i, width, height) == width > 0 /\ (i \div width) < height

\* the four bytes of pixel i of an RGBA buffer, <<>> if it has no pixel i
PixelAt(rgba, i) == IF 4 * i + 4 <= Len(rgba) THEN SubSeq(rgba, 4 * i + 1, 4 * i + 4) ELSE <<>>

\* the output of a successful merge holds, as pixel i, the R, G, B of pixel i of
\* image 1's normalised RGBA and byte i of image 2's alpha mask
MergedPixelIsRight(i) ==
    LET rgba1 == buf_to_rgba(args.png_buf, i + 1, args.png_info)
        alpha2 == buf_to_alpha_mask(args.pna_buf, i + 1, args.pna_info)
        out == PixelAt(ret.val, i)
    IN  /\ rgba1.ok
        /\ alpha2.ok
        /\ out # <<>>
        /\ out = <<rgba1.val[4 * i + 1], rgba1.val[4 * i + 2], rgba1.val[4 * i + 3],
                   alpha2.val[i + 1]>>

\* C2: whenever merge_pna succeeds on two images of equal dimensions, every
\* pixel i of the width x height grid is in the output, with the R, G, B of
\* pixel i of image 1's normalised RGBA and byte i of image 2's alpha mask as
\* its alpha.  (A pixel index beyond the output's last pixel, if the grid has
\* one, is the first the output lacks: the indices up to that one decide.)
C2_OutputPixels ==
    (Returned("merge_pna") /\ ret.ok)
        => \A i \in 0..(Len(ret.val) \div 4) :
              InGrid(i, args.png_info.width, args.png_info.height)
                  => MergedPixelIsRight(i)

\* C2 holds of every call whose pixel count fits 32 bits.
C2_OutputPixelsWithoutOverflow ==
    (Returned("merge_pna") /\ ret.ok
     /\ ~MulU32(args.png_info.width, args.png_info.height).overflow)
        => \A i \in 0..(Len(ret.val) \div 4) :
              InGrid(i, args.png_info.width, args.png_info.height)
                  => MergedPixelIsRight(i)

\* a merge of two pixels whose alpha bytes come from the mask, not from image 1
C2_MergedTwoPixels ==
    /\ Returned("merge_pna")
    /\ ret.ok
    /\ Len(ret.val) = 8
    /\ args.png_info.color_type = "Rgba"
    /\ PngAlone.ok
    /\ PngAlone.val[4] # ret.val[4]
    /\ ret.val[4] # ret.val[8]

\* the other buffers of bufs that differ from buf in alpha samples only: of the
\* same length, with every gray or color sample the same
AlphaOnlyVariants(buf, color_type, bit_depth, bufs) ==
    {b \in bufs \ {buf} :
        /\ Len(b) = Len(buf)
        /\ \A k \in 0..(((Len(buf) * 8) \div Bits(bit_depth)) - 1) :
              (k % (IF color_type = "Rgba" THEN 4 ELSE 2)
                  # (IF color_type = "Rgba" THEN 3 ELSE 1))
                => (IF bit_depth = "Sixteen"
                    THEN <<b[2 * k + 1], b[2 * k + 2]>> = <<buf[2 * k + 1], buf[2 * k + 2]>>
                    ELSE LET n == Bits(bit_depth)
                             per == 8 \div n
                             shift == Pow2(8 - n * ((k % per) + 1))
                         IN  (b[(k \div per) + 1] \div shift) % Pow2(n)
                                = (buf[(k \div per) + 1] \div shift) % Pow2(n))}

\* C12: for a GrayscaleAlpha or Rgba mask image, every mask image that differs
\* from it in alpha samples only gives the same alpha mask (or the same error)
\* and, with the same image 1, the same result of merge_pna.
C12_MaskAlphaIgnored ==
    (Returned("merge_pna") /\ args.pna_info.color_type \in {"GrayscaleAlpha", "Rgba"})
        => \A b \in AlphaOnlyVariants(args.pna_buf, args.pna_info.color_type,
                                      args.pna_info.bit_depth, MaskBufs) :
              /\ buf_to_alpha_mask(b, MulU32(args.pna_info.width,
                                             args.pna_info.height).wrapped,
                                   args.pna_info) = PnaAlone
              /\ \A overflow_checks \in BOOLEAN :
                    merge_pna(args.png_buf, args.png_info, b, args.pna_info,
                              overflow_checks)
                      = merge_pna(args.png_buf, args.png_info, args.pna_buf, args.pna_info,
                                  overflow_checks)
              /\ \E overflow_checks \in BOOLEAN :
                    ret = merge_pna(args.png_buf, args.png_info, b, args.pna_info,
                                    overflow_checks)

\* C12 witness: a merge succeeded with the one-pixel Rgba mask 0b00000001 at
\* depth 2, whose alpha sample alone tells it from the mask 0b00000000.
C12_AlphaSampleDiffers ==
    /\ Returned("merge_pna")
    /\ ret.ok
    /\ args.pna_info.color_type = "Rgba"
    /\ args.pna_info.bit_depth = "Two"
    /\ args.pna_buf = <<1>>
    /\ <<0>> \in AlphaOnlyVariants(args.pna_buf, "Rgba", "Two", MaskBufs)
    /\ buf_to_rgba(<<0>>, 1, args.pna_info) # buf_to_rgba(<<1>>, 1, args.pna_info)

\* the output has exactly width * height * 4 bytes: pixel i is in the output
\* exactly when it is in the width x height grid
OutputFillsGrid ==
    /\ Len(ret.val) % 4 = 0
    /\ \A i \in 0..(Len(ret.val) \div 4) :
          InGrid(i, args.png_info.width, args.png_info.height) <=> i < Len(ret.val) \div 4

\* C14: whenever merge_pna succeeds, its output has exactly width * height * 4
\* bytes, and whenever both normalisations succeed the per-pixel loop does not
\* reach its LessDataSize branch: merge_pna succeeds.
C14_OutputSize ==
    Returned("merge_pna") =>
        /\ ret.ok => OutputFillsGrid
        /\ (~DimensionsDiffer /\ PngAlone.ok /\ PnaAlone.ok) => ret.ok

\* C14 holds of every call whose pixel count fits 32 bits.
C14_OutputSizeWithoutOverflow ==
    (Returned("merge_pna")
     /\ ~MulU32(args.png_info.width, args.png_info.height).overflow)
        => /\ ret.ok => OutputFillsGrid
           /\ (~DimensionsDiffer /\ PngAlone.ok /\ PnaAlone.ok) => ret.ok

\* a merge of a 2 x 1 image that returned 8 bytes
C14_TwoPixelsEightBytes ==
    /\ Returned("merge_pna")
    /\ ret.ok
    /\ args.png_info.width = 2
    /\ args.png_info.height = 1
    /\ Len(ret.val) = 8

\* C18: the pixel count merge_pna works with is the product width * height,
\* the multiplication never wrapping modulo 2^32: for two images of equal
\* dimensions whose grid has a pixel, the call neither stops in the
\* multiplication nor succeeds with an empty output (as width = height = 65536
\* would with a pixel count of 0).
C18_PixelCountIsProduct ==
    (/\ Returned("merge_pna")
     /\ ~DimensionsDiffer
     /\ InGrid(0, args.png_info.width, args.png_info.height))
        => /\ ret # Panicked
           /\ ret # Ok(<<>>)

\* C18 holds of every call whose pixel count fits 32 bits.
C18_PixelCountIsProductBelowWrap ==
    (/\ Returned("merge_pna")
     /\ ~DimensionsDiffer
     /\ InGrid(0, args.png_info.width, args.png_info.height)
     /\ args.png_info.width < 65536)
        => /\ ret # Panicked
           /\ ret # Ok(<<>>)

\* the call of two 65536 x 65536 images stopped in the multiplication
C18_MultiplicationPanicked ==
    /\ Returned("merge_pna")
    /\ args.png_info.width = 65536
    /\ args.png_info.height = 65536
    /\ ~DimensionsDiffer
    /\ ret = Panicked

(***************************************************************************)
(* Properties of buf_to_rgba and buf_to_alpha_mask (checked under          *)
(* SpecNormalize).                                                         *)
(***************************************************************************)
Normalized == pc = "return" /\ fn \in {"buf_to_rgba", "buf_to_alpha_mask"}

\* samples per pixel of a color model
Channels(color_type) ==
    CASE color_type = "Grayscale" -> 1
      [] color_type = "Rgb" -> 3
      [] color_type = "Indexed" -> 1
      [] color_type = "GrayscaleAlpha" -> 2
      [] color_type = "Rgba" -> 4

\* the number of whole bit_depth-wide groups in the buffer
NumSamples(buf, bit_depth) == (Len(buf) * 8) \div Bits(bit_depth)

\* the raw value of the k-th (from 0) bit_depth-wide group of the buffer, most
\* significant bits first within a byte; two bytes, high byte first, at depth 16
RawGroup(buf, bit_depth, k) ==
    IF bit_depth = "Sixteen" THEN 256 * buf[2 * k + 1] + buf[2 * k + 2]
    ELSE LET n == Bits(bit_depth)
             per == 8 \div n
         IN  (buf[(k \div per) + 1] \div Pow2(8 - n * ((k % per) + 1))) % Pow2(n)

\* entry i (from 0) of a raw palette
RawEntry(raw, i) == <<raw[3 * i + 1], raw[3 * i + 2], raw[3 * i + 3]>>

OddAtSixteen == args.info.bit_depth = "Sixteen" /\ Len(args.buf) % 2 = 1

SamplesNeeded == args.pixel_size * Channels(args.info.color_type)

SamplesThere == NumSamples(args.buf, args.info.bit_depth)

\* the size the normalised buffer must have
ExactSize == IF fn = "buf_to_rgba" THEN 4 * args.pixel_size ELSE args.pixel_size

SizeRule ==
    IF SamplesThere < SamplesNeeded THEN ret = Err("LessDataSize")
    ELSE ret.ok /\ Len(ret.val) = ExactSize

\* C3 as stated: for every color model and bit depth, fewer samples than
\* pixel_size * channels fail with LessDataSize, and at least that many, with
\* any surplus, succeed with a buffer of exact size.
C3_SizeRuleEveryModel == Normalized => SizeRule

PaletteWellFormed == args.info.palette.some /\ Len(args.info.palette.raw) % 3 = 0

\* every index the pixel loop consumes names a palette entry
ConsumedIndicesInRange ==
    \A k \in 0..(Min(SamplesThere, args.pixel_size) - 1) :
        RawGroup(args.buf, args.info.bit_depth, k) < Len(args.info.palette.raw) \div 3

\* C3 amended: a buffer of odd length at depth 16 fails with LessDataSize at
\* every color model; otherwise, for the four non-Indexed color models, and
\* for Indexed with a well-formed palette and every consumed index in range,
\* fewer samples than pixel_size * channels fail with LessDataSize and at
\* least that many succeed with a buffer of exact size; an Indexed image with
\* no palette, a malformed palette or a consumed index out of range fails
\* with the palette's error whatever the number of samples.
C3_SizeRuleAmended ==
    Normalized =>
        IF OddAtSixteen THEN ret = Err("LessDataSize")
        ELSE IF args.info.color_type # "Indexed" THEN SizeRule
        ELSE IF PaletteWellFormed /\ ConsumedIndicesInRange THEN SizeRule
        ELSE ret.err \in {"PaletteNotFoundWhenIndexedPng", "InvalidPalette",
                          "InvalidIndexForPalette"}

\* C3 witness: a normalisation of two Rgb pixels that succeeded with surplus
\* samples in the buffer.
C3_SurplusDropped ==
    /\ Returned("buf_to_rgba")
    /\ args.info.color_type = "Rgb"
    /\ args.pixel_size = 2
    /\ SamplesThere > SamplesNeeded
    /\ ret.ok
    /\ Len(ret.val) = 8

\* the scaled samples of the call's buffer
ScaledSamples == read_bytes_for_bit_depth_8(args.buf, args.info.bit_depth).val

ExpectedPixel(color_type, s, k) ==
    CASE color_type = "Grayscale" -> <<s[k + 1], s[k + 1], s[k + 1], 255>>
      [] color_type = "GrayscaleAlpha" ->
            <<s[2 * k + 1], s[2 * k + 1], s[2 * k + 1], s[2 * k + 2]>>
      [] color_type = "Rgb" -> <<s[3 * k + 1], s[3 * k + 2], s[3 * k + 3], 255>>
      [] color_type = "Rgba" ->
            <<s[4 * k + 1], s[4 * k + 2], s[4 * k + 3], s[4 * k + 4]>>

\* C5: when buf_to_rgba succeeds on a non-Indexed image, pixel k of its output
\* is (g,g,g,255) for Grayscale from scaled sample k, (g,g,g,a) for
\* GrayscaleAlpha from scaled samples 2k, 2k+1, (r,g,b,255) for Rgb from scaled
\* samples 3k..3k+2, and the scaled samples 4k..4k+3 for Rgba.
C5_NonIndexedPixels ==
    (Returned("buf_to_rgba") /\ ret.ok /\ args.info.color_type # "Indexed")
        => LET s == ScaledSamples
            IN  \A k \in 0..(args.pixel_size - 1) :
                   PixelAt(ret.val, k) = ExpectedPixel(args.info.color_type, s, k)

\* C5 witness: two GrayscaleAlpha pixels normalised, the first with a gray
\* that differs from its alpha and an alpha that is not opaque.
C5_GrayscaleAlphaPixels ==
    /\ Returned("buf_to_rgba")
    /\ ret.ok
    /\ args.info.color_type = "GrayscaleAlpha"
    /\ args.pixel_size = 2
    /\ ret.val[1] # ret.val[4]
    /\ ret.val[4] # 255

\* C6: when buf_to_rgba succeeds on an Indexed image, pixel k of its output is
\* (p.r, p.g, p.b, 255), p being the palette entry whose number is the raw
\* value of the k-th bit_depth-wide group of the buffer (below 2^bit_depth).
C6_IndexedPixels ==
    (Returned("buf_to_rgba") /\ ret.ok /\ args.info.color_type = "Indexed")
        => \A k \in 0..(args.pixel_size - 1) :
              LET i == RawGroup(args.buf, args.info.bit_depth, k)
                  p == RawEntry(args.info.palette.raw, i)
              IN  /\ i < Pow2(Bits(args.info.bit_depth))
                  /\ PixelAt(ret.val, k) = <<p[1], p[2], p[3], 255>>

\* C6 witness: four Indexed pixels at depth 2, the first and the last naming
\* different palette entries.
C6_TwoEntriesAtDepthTwo ==
    /\ Returned("buf_to_rgba")
    /\ ret.ok
    /\ args.info.color_type = "Indexed"
    /\ args.info.bit_depth = "Two"
    /\ args.pixel_size = 4
    /\ PixelAt(ret.val, 0) # PixelAt(ret.val, 3)

\* the 4-pixel Indexed image of the unit test: one byte 0b11000000 at depth 1,
\* palette red, blue
C7_Call ==
    /\ Returned("buf_to_rgba")
    /\ args.buf = <<192>>
    /\ args.pixel_size = 4
    /\ args.info.color_type = "Indexed"
    /\ args.info.bit_depth = "One"
    /\ args.info.palette = PaletteSome(<<255, 0, 0, 0, 0, 255>>)

\* the first four indices read from the call's buffer
C7_Indices == SubSeq(read_bytes_for_usize(args.buf, args.info.bit_depth).val, 1, 4)

\* C7 as stated: that image reads the indices 1,0,1,0 and normalises to
\* pixels alternating blue-opaque, red-opaque.
C7_Alternating ==
    C7_Call =>
        /\ C7_Indices = <<1, 0, 1, 0>>
        /\ ret = Ok(<<0, 0, 255, 255, 255, 0, 0, 255, 0, 0, 255, 255, 255, 0, 0, 255>>)

\* C7 amended: that image reads the indices 1,1,0,0 and normalises to two
\* blue-opaque pixels followed by two red-opaque pixels.
C7_BlueBlueRedRed ==
    C7_Call =>
        /\ C7_Indices = <<1, 1, 0, 0>>
        /\ ret = Ok(<<0, 0, 255, 255, 0, 0, 255, 255, 255, 0, 0, 255, 255, 0, 0, 255>>)

\* C7 witness: the call of the unit test returned.
C7_UnitTestCall == C7_Call /\ ret.ok

IndexedWithoutPalette ==
    Normalized /\ args.info.color_type = "Indexed" /\ ~args.info.palette.some

\* C8 as stated: an Indexed image with no palette fails with
\* PaletteNotFoundWhenIndexedPng at every bit depth, for every buffer (also
\* one of odd length at depth 16) and every pixel count.
C8_NoPaletteAlwaysReported ==
    IndexedWithoutPalette => ret = Err("PaletteNotFoundWhenIndexedPng")

\* C8 amended: an Indexed image with no palette fails with
\* PaletteNotFoundWhenIndexedPng at every bit depth, for every buffer and every
\* pixel count, except a buffer of odd length at depth 16, which fails with
\* LessDataSize.
C8_NoPaletteReportedUnlessOdd ==
    IndexedWithoutPalette =>
        ret = IF OddAtSixteen THEN Err("LessDataSize")
              ELSE Err("PaletteNotFoundWhenIndexedPng")

\* C8 witness: no pixel is asked for, the depth-16 buffer unpacks, and the
\* missing palette is reported.
C8_ZeroPixelsNoPalette ==
    /\ IndexedWithoutPalette
    /\ args.pixel_size = 0
    /\ args.info.bit_depth = "Sixteen"
    /\ Len(args.buf) = 2
    /\ ret = Err("PaletteNotFoundWhenIndexedPng")

IndexedWithPalette ==
    Normalized /\ args.info.color_type = "Indexed" /\ PaletteWellFormed

\* C9 as stated: with a well-formed palette, any index sample in the image
\* data that is no palette entry makes the call fail with
\* InvalidIndexForPalette, at every bit depth.
C9_AnyBadIndexFails ==
    (/\ IndexedWithPalette
     /\ \E k \in 0..(SamplesThere - 1) :
            RawGroup(args.buf, args.info.bit_depth, k) >= Len(args.info.palette.raw) \div 3)
        => ret = Err("InvalidIndexForPalette")

\* C9 amended: with a well-formed palette and a buffer that unpacks (not of
\* odd length at depth 16), an index that is no palette entry among the first
\* pixel_size samples makes the call fail with InvalidIndexForPalette, at
\* every bit depth; such an index among the surplus samples fails nothing.
C9_ConsumedBadIndexFails ==
    (IndexedWithPalette /\ ~OddAtSixteen /\ ~ConsumedIndicesInRange)
        => ret = Err("InvalidIndexForPalette")

\* C9 witness: the second of two pixels names an entry a two-entry palette
\* lacks, the first names one it has.
C9_SecondIndexBad ==
    /\ IndexedWithPalette
    /\ fn = "buf_to_rgba"
    /\ Len(args.info.palette.raw) = 6
    /\ args.pixel_size = 2
    /\ SamplesThere >= 2
    /\ RawGroup(args.buf, args.info.bit_depth, 0) < 2
    /\ RawGroup(args.buf, args.info.bit_depth, 1) >= 2
    /\ ret = Err("InvalidIndexForPalette")

\* C14, the two normalisers: for all five color models and all five bit
\* depths, a successful buf_to_rgba returns exactly pixel_size * 4 bytes and a
\* successful buf_to_alpha_mask exactly pixel_size bytes.
C14_NormalizedSizes == (Normalized /\ ret.ok) => Len(ret.val) = ExactSize

\* the normalised channels r, g, b of pixel k of the call's image: the scaled
\* samples of the pixel, or the palette entry its index names
MaskChannels(color_type, s, k) ==
    CASE color_type = "Grayscale" -> <<s[k + 1], s[k + 1], s[k + 1]>>
      [] color_type = "GrayscaleAlpha" -> <<s[2 * k + 1], s[2 * k + 1], s[2 * k + 1]>>
      [] color_type = "Rgb" -> <<s[3 * k + 1], s[3 * k + 2], s[3 * k + 3]>>
      [] color_type = "Rgba" -> <<s[4 * k + 1], s[4 * k + 2], s[4 * k + 3]>>
      [] color_type = "Indexed" ->
            RawEntry(args.info.palette.raw, RawGroup(args.buf, args.info.bit_depth, k))

\* C11: when buf_to_alpha_mask succeeds, byte k of the mask is
\* floor((r + g + b) / 3) of the normalised channels r, g, b of pixel k, the
\* sum formed without wrapping at 8 bits, so the byte is in 0..255; for a
\* Grayscale or GrayscaleAlpha image it is the gray sample itself.
C11_AlphaDerivation ==
    (Returned("buf_to_alpha_mask") /\ ret.ok)
        => LET s == ScaledSamples
           IN  \A k \in 0..(args.pixel_size - 1) :
                  LET c == MaskChannels(args.info.color_type, s, k)
                  IN  /\ ret.val[k + 1] = (c[1] + c[2] + c[3]) \div 3
                      /\ ret.val[k + 1] \in 0..255
                      /\ args.info.color_type \in {"Grayscale", "GrayscaleAlpha"}
                            => ret.val[k + 1] = c[1]

\* C11 witness: the mask of the two Rgb pixels (255,255,255) and (1,1,1) is
\* 255, 1.
C11_WhiteAndOne ==
    /\ Returned("buf_to_alpha_mask")
    /\ args.info.color_type = "Rgb"
    /\ args.info.bit_depth = "Eight"
    /\ args.pixel_size = 2
    /\ args.buf = <<255, 255, 255, 1, 1, 1>>
    /\ ret = Ok(<<255, 1>>)

\* C17: buf_to_alpha_mask is the two-stage pipeline fused: on every input it
\* succeeds exactly when buf_to_rgba succeeds, fails with buf_to_rgba's error
\* otherwise, and on success returns pixel_size bytes, byte i being
\* floor((R + G + B) / 3) of pixel i of buf_to_rgba's result.
C17_MaskIsPipeline ==
    Returned("buf_to_alpha_mask") =>
        LET rgba == buf_to_rgba(args.buf, args.pixel_size, args.info)
        IN  /\ ret.ok <=> rgba.ok
            /\ ~ret.ok => ret = rgba
            /\ ret.ok =>
                  /\ Len(ret.val) = args.pixel_size
                  /\ \A i \in 0..(args.pixel_size - 1) :
                        LET p == PixelAt(rgba.val, i)
                        IN  ret.val[i + 1] = (p[1] + p[2] + p[3]) \div 3

\* C17 witness: the mask of two Indexed pixels naming palette entries of
\* different averages.
C17_TwoIndexedAverages ==
    /\ Returned("buf_to_alpha_mask")
    /\ ret.ok
    /\ args.info.color_type = "Indexed"
    /\ args.pixel_size = 2
    /\ ret.val[1] # ret.val[2]
    /\ buf_to_rgba(args.buf, args.pixel_size, args.info).ok

(***************************************************************************)
(* Properties of the bit unpackers (checked under SpecUnpack).             *)
(***************************************************************************)
\* the n-bit sample k (from 0) of a byte, most significant bits first
SampleOf(byte, n, k) == (byte \div Pow2(8 - n * (k + 1))) % Pow2(n)

\* an n-bit sample left-aligned in a byte, its low 8 - n bits all ones if the
\* sample's least significant bit is 1 and all zeros otherwise
FillRule(v, n) == v * Pow2(8 - n) + (IF v % 2 = 1 THEN Pow2(8 - n) - 1 ELSE 0)

ReadOneByte == Returned("read_byte_for_bit_depth_8") /\ args.buf_iter # <<>>

\* C4: read_byte_for_bit_depth_8 at depth n in {1,2,4} turns a byte into 8/n
\* samples, sample k being the k-th n-bit group from the most significant end,
\* left-aligned, with its low 8-n bits all ones iff its least significant bit
\* is 1 (depth 2: 3 -> 255, 2 -> 128, 1 -> 127, 0 -> 0; depth 1: 1 -> 255,
\* 0 -> 0); at depth 8 it returns the byte unchanged, as one sample.
C4_ScaledSamples ==
    (ReadOneByte /\ args.bit_depth \in {"One", "Two", "Four", "Eight"})
        => LET n == Bits(args.bit_depth)
               t1 == Head(args.buf_iter)
           IN  /\ ret.ok
               /\ ret.some
               /\ ret.size = 8 \div n
               /\ \A k \in 0..((8 \div n) - 1) :
                     /\ ret.output[k + 1] = FillRule(SampleOf(t1, n, k), n)
                     /\ n = 8 => ret.output[k + 1] = t1
                     /\ n = 2 => ret.output[k + 1] =
                                    CASE SampleOf(t1, 2, k) = 3 -> 255
                                      [] SampleOf(t1, 2, k) = 2 -> 128
                                      [] SampleOf(t1, 2, k) = 1 -> 127
                                      [] SampleOf(t1, 2, k) = 0 -> 0
                     /\ n = 1 => ret.output[k + 1] = 255 * SampleOf(t1, 1, k)

\* C4 witness: the byte 0b00110110 of the unit test read at depth 2.
C4_UnitTestByteAtDepthTwo ==
    /\ ReadOneByte
    /\ args.bit_depth = "Two"
    /\ Head(args.buf_iter) = 54
    /\ ret.size = 4
    /\ SubSeq(ret.output, 1, 4) = <<0, 255, 127, 128>>

ReadWholeBuffer ==
    pc = "return" /\ fn \in {"read_bytes_for_bit_depth_8", "read_bytes_for_usize"}

\* C13: read_bytes_for_bit_depth_8 and read_bytes_for_usize never fail at
\* depths 1, 2, 4 and 8, whatever the buffer, the empty one included; at depth
\* 16 they fail, with LessDataSize, exactly when the buffer's length is odd,
\* and otherwise return one sample per 2-byte group, which in scaled mode is
\* the first byte of the pair.
C13_UnpackErrors ==
    ReadWholeBuffer =>
        IF args.bit_depth # "Sixteen" THEN ret.ok
        ELSE IF Len(args.buf) % 2 = 1 THEN ret = Err("LessDataSize")
        ELSE /\ ret.ok
             /\ Len(ret.val) = Len(args.buf) \div 2
             /\ fn = "read_bytes_for_bit_depth_8"
                   => \A k \in 0..(Len(ret.val) - 1) : ret.val[k + 1] = args.buf[2 * k + 1]

\* C13 witness: four bytes read in scaled mode at depth 16 gave two samples,
\* the first of them unlike the low-order byte of its pair.
C13_TwoPairsAtSixteen ==
    /\ Returned("read_bytes_for_bit_depth_8")
    /\ args.bit_depth = "Sixteen"
    /\ Len(args.buf) = 4
    /\ ret.ok
    /\ Len(ret.val) = 2
    /\ ret.val[1] # args.buf[2]

(***************************************************************************)
(* Properties of split_palette (checked under SpecPalette).                *)
(***************************************************************************)
\* C10: split_palette fails, with InvalidPalette, exactly when the raw
\* palette's length is no multiple of 3; otherwise it returns length/3 entries,
\* entry i being (raw[3i], raw[3i+1], raw[3i+2]); an empty raw palette gives an
\* empty palette.
C10_SplitPalette ==
    Returned("split_palette") =>
        LET raw == args.palette_raw
        IN  IF Len(raw) % 3 # 0 THEN ret = Err("InvalidPalette")
            ELSE /\ ret.ok
                 /\ Len(ret.val) = Len(raw) \div 3
                 /\ \A i \in 0..(Len(ret.val) - 1) : ret.val[i + 1] = RawEntry(raw, i)
                 /\ raw = <<>> => ret = Ok(<<>>)

\* C10 witness: a raw palette of six bytes split into two different entries.
C10_TwoEntries ==
    /\ Returned("split_palette")
    /\ Len(args.palette_raw) = 6
    /\ ret.ok
    /\ Len(ret.val) = 2
    /\ ret.val[1] # ret.val[2]

(***************************************************************************)
(* Properties of a run of the program (checked under SpecMain).            *)
(***************************************************************************)
HasEvent(op, result) == \E i \in 1..Len(trace) : trace[i] = Ev(op, result)

\* process was called, or main is about to call it
ProcessStarted ==
    \/ HasEvent("process", "called")
    \/ pc = "decode_png"

ArgumentsValid == args.png_is_file /\ args.pna_is_file

\* the lines read from standard input so far
Consumed == SubSeq(args.stdin, 1, Len(args.stdin) - Len(stdin))

\* the line as typed: without its line end
Typed(line) ==
    IF Len(line) >= 2 /\ SubSeq(line, Len(line) - 1, Len(line)) = <<"\r", "\n">>
    THEN SubSeq(line, 1, Len(line) - 2)
    ELSE IF Len(line) >= 1 /\ line[Len(line)] = "\n" THEN SubSeq(line, 1, Len(line) - 1)
    ELSE line

\* the line between its first and its last character that is no white space
Stripped(line) ==
    LET solid == {i \in 1..Len(line) : line[i] \notin Whitespace}
    IN  IF solid = {} THEN <<>>
        ELSE SubSeq(line, CHOOSE i \in solid : \A j \in solid : i <= j,
                          CHOOSE i \in solid : \A j \in solid : i >= j)

\* the confirmation of a run with valid arguments, Answer(line) being what
\* counts as the user's answer and NoExitCodes the exit codes an answer "n"
\* may end the run with
ConfirmRule(Answer(_), NoExitCodes) ==
    ArgumentsValid =>
        /\ (args.force \/ ~args.output_exists) =>
              /\ stdout = <<>>
              /\ stdin = args.stdin
              /\ pc \notin {"to_config", "confirm"} => ProcessStarted
        /\ (~args.force /\ args.output_exists) =>
              /\ pc \notin {"to_config", "confirm"} =>
                    /\ stdout # <<>>
                    /\ pc # "prompt" => Prompts(stdout) >= 1
              /\ ProcessStarted =>
                    /\ Consumed # <<>>
                    /\ Answer(Consumed[Len(Consumed)]) = <<"Y">>
                    /\ \A i \in 1..(Len(Consumed) - 1) :
                          Answer(Consumed[i]) \notin {<<"Y">>, <<"n">>}
              /\ (Consumed # <<>> /\ Answer(Consumed[Len(Consumed)]) = <<"n">>) =>
                    /\ pc = "exit"
                    /\ ~ProcessStarted
                    /\ exit_code.code \in NoExitCodes
                    /\ exit_code = Exited(1) => ret = Err("Io")
              /\ (Consumed # <<>>
                  /\ Answer(Consumed[Len(Consumed)]) \notin {<<"Y">>, <<"n">>}) =>
                    /\ ~ProcessStarted
                    /\ \/ pc = "prompt"
                       \/ pc = "read_line" /\ stdout[Len(stdout)] = PromptMsg
                       \/ pc = "exit" /\ ret = Err("Io")
              /\ pc = "read_line" => stdout[Len(stdout)] = PromptMsg

\* C15 as stated: without --force and with the output path existing, the run
\* prompts and reads lines; it goes on to processing only after the answer
\* "Y" exactly, ends at once with exit code 0 and without processing after
\* the answer "n" exactly, and prompts again after any other line; with
\* --force or without an output file it prompts nothing and starts processing.
C15_ConfirmExactly == ConfirmRule(Typed, {0})

\* C15 amended: the answer is the line with the white space at both its ends
\* removed, so " Y" is "Y" and "n " is "n"; any other line, and the end of
\* input, prompts again; a read or a flush that fails ends the run with exit
\* code 1 and without processing, also after the answer "n".
C15_ConfirmTrimmed == ConfirmRule(Stripped, {0, 1})

\* C15 witness: processing started after a first answer "y", prompted again,
\* and a second answer " Y".
C15_PaddedYesAfterRetry ==
    /\ ~args.force
    /\ args.output_exists
    /\ ProcessStarted
    /\ Consumed = <<<<"y", "\n">>, <<" ", "Y", "\n">>>>
    /\ Prompts(stdout) = 2

\* the stages of main in the order main calls them
StageOps == <<"to_config_with_force_flag", "confirm_overwriting", "process">>

StageNumber(op) == CHOOSE k \in 1..3 : StageOps[k] = op

\* the stages called so far, in the order of their calls
StagesCalled ==
    SelectSeq(trace, LAMBDA e : e.result = "called" /\ e.op \in {StageOps[k] : k \in 1..3})

\* C16: the run ends with exit code 1 whenever to_config_with_force_flag,
\* confirm_overwriting or process returns an error, and with exit code 0 when
\* process succeeds; the stages are called in that order, and none is called
\* after an earlier one failed.
C16_ExitCodes ==
    fn = "main" =>
        /\ \A k \in 1..3 :
              HasEvent(StageOps[k], "Err") =>
                  /\ pc = "exit"
                  /\ exit_code = Exited(1)
                  /\ trace[Len(trace)] = Ev(StageOps[k], "Err")
                  /\ ~ret.ok
        /\ HasEvent("process", "Ok") => (pc = "exit" /\ exit_code = Exited(0))
        /\ \A i, j \in 1..Len(StagesCalled) :
              i < j => StageNumber(StagesCalled[i].op) < StageNumber(StagesCalled[j].op)
        /\ \A i, j \in 1..Len(trace) :
              (i < j /\ trace[j].result = "called") => trace[i].result \in {"called", "Ok"}
        /\ (pc = "exit" /\ exit_code = Exited(0)) =>
              ~\E i \in 1..Len(trace) : trace[i].result = "Err"

\* C16 witness: the confirmation failed on its second prompt; the run ended
\* with exit code 1 and process was not called.
C16_ConfirmationFailed ==
    /\ fn = "main"
    /\ pc = "exit"
    /\ HasEvent("to_config_with_force_flag", "Ok")
    /\ HasEvent("confirm_overwriting", "Err")
    /\ Prompts(stdout) = 2
    /\ ~HasEvent("process", "called")
    /\ exit_code = Exited(1)

\* the file at output_path as the run found it
OutputAsFound == IF args.output_exists THEN "old" ELSE "absent"

\* the user's last answer was "Y"
AnsweredYes == Consumed # <<>> /\ Stripped(Consumed[Len(Consumed)]) = <<"Y">>

\* op returned Ok, and before the call of File::create
OkBeforeCreate(op) ==
    \E i, j \in 1..Len(trace) :
        /\ i < j
        /\ trace[i] = Ev(op, "Ok")
        /\ trace[j] = Ev("File::create", "Ok")

\* C19: the output file is created or truncated only after both inputs were
\* decoded and merge_pna succeeded, and only in a run with --force, or that
\* found no file at the output path, or whose user answered "Y"; a run that
\* ends with a configuration error, the answer "n", a decode error or a merge
\* error leaves the output file as it found it.
C19_OutputFileSafe ==
    fn = "main" =>
        /\ output_file # OutputAsFound =>
              /\ OkBeforeCreate("decode_png")
              /\ OkBeforeCreate("decode_pna")
              /\ OkBeforeCreate("merge_pna")
              /\ args.force \/ ~args.output_exists \/ AnsweredYes
        /\ (\/ HasEvent("to_config_with_force_flag", "Err")
            \/ HasEvent("confirm_overwriting", "Err")
            \/ HasEvent("confirm_overwriting", "exit")
            \/ HasEvent("decode_png", "Err")
            \/ HasEvent("decode_pna", "Err")
            \/ HasEvent("merge_pna", "Err")
            \/ HasEvent("merge_pna", "panic"))
              => output_file = OutputAsFound

\* C19 witness: an existing output file was truncated and written in a run
\* without --force whose user answered "Y".
C19_OverwrittenAfterYes ==
    /\ fn = "main"
    /\ ~args.force
    /\ args.output_exists
    /\ AnsweredYes
    /\ HasEvent("merge_pna", "Ok")
    /\ output_file = "written"
    /\ exit_code = Exited(0)

====
